---------------------------- MODULE Spec2Model ----------------------------
(***************************************************************************)
(* State-machine model of the medical-imaging API: the record handlers of  *)
(* main.py / crud.py, the upload pipeline of file_utils.py and the access  *)
(* gate of auth_utils.py.                                                  *)
(*                                                                         *)
(* Strings that the code takes apart (file names, paths) are sequences of  *)
(* tokens: "/" is the path separator, "." a dot, every other token is a    *)
(* run of letters and digits.  ".." is <<".", ".">>.                       *)
(***************************************************************************)
EXTENDS Integers, Sequences, FiniteSets, TLC

(***************************************************************************)
(* Bounds of the model.                                                    *)
(***************************************************************************)
MaxPatients == 1
MaxStudies == 1
MaxUploads == 2
MaxDeletes == 1
MaxNameLen == 6
MaxUsers == 1
MaxTtl == 1
MaxTime == 6
TicksPerSecond == 2
ACCESS_TOKEN_EXPIRE == 1
MaxHashCalls == 2
MaxRequests == 3
MaxRows == 2

VARIABLES
    patients,     \* rows of table "patients": [id, mrn]
    studies,      \* rows of table "studies": [id, patient_id]
    images,       \* rows of table "images"
    files,        \* the file system: set of [path, data]
    uploads,      \* upload_image requests, by request number
    deletes,      \* delete_image requests, by request number
    uuidCount,    \* number of uuid4() values drawn for stored names
    rowCount,     \* number of primary keys drawn: [patients, studies, images]
    accessLog,    \* per request that reached the repository or the blob
                  \* store: [bearer, gate]
    users,        \* rows of table "users": [id, is_active]
    now,          \* datetime.utcnow(), in ticks
    issued,       \* the token create_access_token returned last, with
                  \* the instant and the lifetime it was issued with
    lastCall,     \* the last call of decode_access_token or of
                  \* get_current_user, and its result
    bodies401,    \* the bodies of the 401 responses of get_current_user
    requests,     \* register, patient and study requests, by request number
    secretKey,    \* auth_utils.SECRET_KEY as read from the environment
    started,      \* the application has started and serves requests
    saltCount,    \* number of salts drawn by hash_password
    hashLog       \* the calls of hash_password made so far, with results

repoVars == <<patients, studies, images, files, uploads, deletes, uuidCount,
              rowCount, accessLog>>
authVars == <<users, now, issued, lastCall, bodies401>>
acctVars == <<requests, secretKey, started, saltCount, hashLog>>
vars == <<repoVars, authVars, acctVars>>

None == "None"

\* no call made yet
NoCall == [fn |-> "none"]

(***************************************************************************)
(* pathlib: Path(filename).suffix and str.lower()                          *)
(***************************************************************************)
Words == {"scan", "png", "PNG", "exe", "etc"}

Lower(w) ==
    CASE w = "PNG" -> "png"
      [] OTHER -> w

LowerSeq(s) == [i \in 1..Len(s) |-> Lower(s[i])]

LastIndexOf(s, tok) ==
    LET hits == {i \in 1..Len(s) : s[i] = tok}
    IN  IF hits = {} THEN 0 ELSE CHOOSE i \in hits : \A j \in hits : j <= i

\* Path(s).name: the last component, empty and "." components dropped
RECURSIVE PathName(_)
PathName(s) ==
    IF s = <<>> THEN <<>>
    ELSE LET i == LastIndexOf(s, "/")
             comp == SubSeq(s, i + 1, Len(s))
         IN  IF comp = <<>> \/ comp = <<".">>
             THEN IF i = 0 THEN <<>> ELSE PathName(SubSeq(s, 1, i - 1))
             ELSE comp

\* Path(s).suffix: from the last dot of the name, unless that dot is the
\* first or the last character of the name
PathSuffix(s) ==
    LET name == PathName(s)
        i == LastIndexOf(name, ".")
    IN  IF 1 < i /\ i < Len(name) THEN SubSeq(name, i, Len(name)) ELSE <<>>

\* root / name: an absolute right operand replaces the left one
JoinPath(root, name) ==
    IF name # <<>> /\ name[1] = "/" THEN name ELSE root \o <<"/">> \o name

(***************************************************************************)
(* file_utils.py                                                           *)
(***************************************************************************)
UPLOAD_DIR == <<"/", "app", "/", "uploads">>
MAX_FILE_SIZE == 10 * 1024 * 1024
ALLOWED_EXTENSIONS ==
    {<<".", "jpg">>, <<".", "jpeg">>, <<".", "png">>, <<".", "gif">>,
     <<".", "dcm">>}
ALLOWED_MIME_TYPES ==
    {"image/jpeg", "image/png", "image/gif", "application/dicom"}
SNIFF_PREFIX == 2048

\* magic.from_buffer(buffer, mime=True) on a buffer whose leading bytes are
\* `head`; an empty buffer has no leading bytes
MagicFromBuffer(head, len) ==
    IF len = 0 THEN "application/x-empty"
    ELSE CASE head = "PNG" -> "image/png"
           [] head = "JFIF" -> "image/jpeg"
           [] head = "GIF8" -> "image/gif"
           [] head = "DICM" -> "application/dicom"
           [] head = "MZ" -> "application/x-dosexec"
           [] OTHER -> "text/plain"

Min(a, b) == IF a < b THEN a ELSE b

\* file_content[:2048]
Prefix(data) == [head |-> data.head, size |-> Min(data.size, SNIFF_PREFIX)]

\* TRUE when the check passes (the function returns), FALSE when it raises
\* HTTPException(400)
\* the extension compared as the client wrote it
validate_file_extension_as_written(filename) ==
    PathSuffix(filename) \in ALLOWED_EXTENSIONS

validate_file_extension(filename) ==
    LowerSeq(PathSuffix(filename)) \in ALLOWED_EXTENSIONS

\* the ceiling itself refused
validate_file_size_below(file_size) == ~(file_size >= MAX_FILE_SIZE)

validate_file_size(file_size) == ~(file_size > MAX_FILE_SIZE)

SniffedMime(buffer) == MagicFromBuffer(buffer.head, buffer.size)

\* every sniffed type let through
validate_mime_type_any(buffer) == TRUE

validate_mime_type(buffer) == SniffedMime(buffer) \in ALLOWED_MIME_TYPES

\* the stored name taken from the client's file name
generate_unique_filename_original(original_filename, unique_id) ==
    LowerSeq(PathName(original_filename))

\* the client's file name kept after the identifier
generate_unique_filename_keep(original_filename, unique_id) ==
    <<unique_id>> \o LowerSeq(original_filename)

generate_unique_filename(original_filename, unique_id) ==
    <<unique_id>> \o LowerSeq(PathSuffix(original_filename))


(***************************************************************************)
(* Inputs a client can send.                                               *)
(***************************************************************************)
Bearers == {"none", "invalid", "valid"}

Mrns == {"MRN1", "MRN2"}

FileNames ==
    {<<"scan", ".", "png">>,
     <<".", ".", "/", "etc", "/", "scan", ".", "PNG">>,
     <<"scan", ".", "exe">>}

Contents ==
    {[head |-> "PNG", size |-> 4096],
     [head |-> "TXT", size |-> 5],
     [head |-> "PNG", size |-> MAX_FILE_SIZE],
     [head |-> "PNG", size |-> MAX_FILE_SIZE + 1],
     [head |-> "TXT", size |-> MAX_FILE_SIZE + 1]}

\* every token sequence of at most MaxNameLen tokens in which no two words
\* are adjacent (two adjacent words are one longer word)
NameTokens == {"/", ".", "png", "PNG", "exe"}

IsName(s) ==
    \A i \in 1..(Len(s) - 1) : ~(s[i] \in Words /\ s[i + 1] \in Words)

AllNames ==
    {s \in UNION {[1..n -> NameTokens] : n \in 0..MaxNameLen} : IsName(s)}

\* str(uuid.uuid4()): the k-th value drawn
UuidNames == <<"uuid1", "uuid2", "uuid3", "uuid4", "uuid5", "uuid6">>
uuid4(k) == UuidNames[k]

PatientIds == 1..MaxPatients
StudyIds == 1..MaxStudies
ImageIds == 1..MaxUploads
Uploads == 1..MaxUploads
Deletes == 1..MaxDeletes
Requests == 1..MaxRequests

(***************************************************************************)
(* Access gate as wired into the handlers of main.py: the dependencies a   *)
(* handler declares are resolved before its body runs.                     *)
(***************************************************************************)
HandlerDependencies(op) == {"get_db"}

Gate(op, bearer) ==
    IF "get_current_user" \in HandlerDependencies(op)
    THEN IF bearer = "valid" THEN "ok" ELSE "rejected"
    ELSE "not_called"

\* the handler body runs; the request is logged with what the gate said
Admitted(op, bearer) ==
    /\ Gate(op, bearer) # "rejected"
    /\ accessLog' = accessLog \cup
                      {[bearer |-> bearer, gate |-> Gate(op, bearer)]}

(***************************************************************************)
(* crud.py queries                                                         *)
(***************************************************************************)
get_patient(patient_id) == {p \in patients : p.id = patient_id}
get_patient_by_mrn(mrn) == {p \in patients : p.mrn = mrn}
get_study(study_id) == {s \in studies : s.id = study_id}
get_image(image_id) == {i \in images : i.id = image_id}

FileAt(path) == {f \in files : f.path = path}

\* open(path, 'wb'); write(data)
WriteFile(path, data) ==
    {f \in files : f.path # path} \cup {[path |-> path, data |-> data]}

(***************************************************************************)
(* Patients and studies (main.py handlers over crud.py)                    *)
(***************************************************************************)
create_patient(mrn, bearer) ==
    /\ rowCount.patients < MaxPatients
    /\ Admitted("create_patient", bearer)
    /\ IF get_patient_by_mrn(mrn) # {}
       THEN UNCHANGED <<patients, rowCount>>                      \* 400
       ELSE /\ patients' = patients \cup
                  {[id |-> rowCount.patients + 1, mrn |-> mrn]}    \* 201
            /\ rowCount' = [rowCount EXCEPT !.patients = @ + 1]
    /\ UNCHANGED <<studies, images, files, uploads, deletes, uuidCount,
                   authVars, acctVars>>

create_study(patient_id, bearer) ==
    /\ rowCount.studies < MaxStudies
    /\ Admitted("create_study", bearer)
    /\ IF get_patient(patient_id) = {}
       THEN UNCHANGED <<studies, rowCount>>                        \* 400
       ELSE /\ studies' = studies \cup
                  {[id |-> rowCount.studies + 1,
                    patient_id |-> patient_id]}                    \* 201
            /\ rowCount' = [rowCount EXCEPT !.studies = @ + 1]
    /\ UNCHANGED <<patients, images, files, uploads, deletes, uuidCount,
                   authVars, acctVars>>

\* Study.images: cascade="all, delete-orphan"; images.study_id: ON DELETE
\* CASCADE.  Rows only: no file is touched.
CascadeStudies(gone) == {i \in images : i.study_id \notin gone}

delete_study(study_id, bearer) ==
    /\ Admitted("delete_study", bearer)
    /\ get_study(study_id) # {}                                    \* else 404
    /\ studies' = studies \ get_study(study_id)
    /\ images' = CascadeStudies({study_id})
    /\ UNCHANGED <<patients, files, uploads, deletes, uuidCount, rowCount,
                   authVars, acctVars>>

\* Patient.studies: cascade="all, delete-orphan"
delete_patient(patient_id, bearer) ==
    /\ Admitted("delete_patient", bearer)
    /\ get_patient(patient_id) # {}                                \* else 404
    /\ patients' = patients \ get_patient(patient_id)
    /\ LET gone == {s \in studies : s.patient_id = patient_id}
       IN  /\ studies' = studies \ gone
           /\ images' = CascadeStudies({s.id : s \in gone})
    /\ UNCHANGED <<files, uploads, deletes, uuidCount, rowCount,
                   authVars, acctVars>>

(***************************************************************************)
(* upload_image (main.py) over save_upload_file (file_utils.py)            *)
(*                                                                         *)
(* pc: idle -> validate -> write -> insert -> done.  The handler is a      *)
(* coroutine; the other handlers run on worker threads, so their steps     *)
(* fall anywhere between the steps below.                                  *)
(***************************************************************************)
CheckOrder == <<"extension", "size", "content", "name">>

NoData == [head |-> "", size |-> 0]

IdleUpload ==
    [pc |-> "idle", study_id |-> 0, filename |-> <<>>, data |-> NoData,
     passed |-> <<>>, stored |-> <<>>, path |-> <<>>, wrote |-> "no",
     read |-> FALSE, status |-> 0, detail |-> None]

\* the detail of the HTTPException(400) raised by the check that follows the
\* checks passed
Detail400(passed) ==
    CASE Len(passed) = 0 -> "File extension is not allowed."
      [] Len(passed) = 1 -> "File size exceeds the maximum allowed size."
      [] OTHER -> "File type is not allowed."

\* save_upload_file with the content sniff run before the size check
RunChecks_SniffBeforeSize(filename, data) ==
    IF ~validate_file_extension(filename) THEN <<>>
    ELSE IF ~validate_mime_type(Prefix(data)) THEN <<"extension">>
    ELSE IF ~validate_file_size(data.size) THEN <<"extension", "size">>
    ELSE <<"extension", "size", "content", "name">>

\* The checks of save_upload_file in the order the code runs them: the
\* checks passed, and whether all of them passed.
RunChecks(filename, data) ==
    IF ~validate_file_extension(filename) THEN <<>>
    ELSE IF ~validate_file_size(data.size) THEN <<"extension">>
    ELSE IF ~validate_mime_type(Prefix(data)) THEN <<"extension", "size">>
    ELSE <<"extension", "size", "content", "name">>

\* save_upload_file's try/except around open and write: an exception of
\* either is raised on as HTTPException(500), which upload_image re-raises
save_upload_file_swallow(outcome) == "returned"

save_upload_file(outcome) == IF outcome = "ok" THEN "returned" ELSE "raised"

\* what is on disk after a write that stopped part-way
Truncated(data) == [head |-> data.head, size |-> data.size \div 2]

upload_begin(r, names, contents, bearer) ==
    /\ uploads[r].pc = "idle"
    /\ r > 1 => uploads[r - 1].pc # "idle"
    /\ Admitted("upload_image", bearer)
    /\ \E study_id \in StudyIds, filename \in names, data \in contents :
         uploads' = [uploads EXCEPT ![r] =
            IF get_study(study_id) = {}
            THEN [@ EXCEPT !.pc = "done", !.study_id = study_id,
                           !.filename = filename, !.status = 404]
            ELSE [@ EXCEPT !.pc = "validate", !.study_id = study_id,
                           !.filename = filename, !.data = data]]
    /\ UNCHANGED <<patients, studies, images, files, deletes, uuidCount,
                   rowCount,
                   authVars, acctVars>>

\* upload_file.read() is awaited after validate_file_extension returned:
\* "read" tells whether the request got that far
upload_validate(r) ==
    /\ uploads[r].pc = "validate"
    /\ LET u == uploads[r]
           passed == RunChecks(u.filename, u.data)
           name == generate_unique_filename(u.filename, uuid4(uuidCount + 1))
       IN  IF passed # CheckOrder
           THEN /\ uploads' = [uploads EXCEPT ![r] =
                       [@ EXCEPT !.pc = "done", !.passed = passed,
                                 !.read = (passed # <<>>),
                                 !.status = 400,
                                 !.detail = Detail400(passed)]]
                /\ UNCHANGED uuidCount
           ELSE /\ uploads' = [uploads EXCEPT ![r] =
                       [@ EXCEPT !.pc = "write", !.passed = passed,
                                 !.read = TRUE,
                                 !.stored = name,
                                 !.path = JoinPath(UPLOAD_DIR, name)]]
                /\ uuidCount' = uuidCount + 1
    /\ UNCHANGED <<patients, studies, images, files, deletes, rowCount,
                   accessLog,
                   authVars, acctVars>>

\* open(file_path, 'wb') and write(file_content): the write completes, or
\* open raises, or write raises after open has created the file
upload_write(r) ==
    /\ uploads[r].pc = "write"
    /\ LET u == uploads[r]
       IN  \E outcome \in {"ok", "open_error", "write_error"} :
             /\ files' = CASE outcome = "ok" -> WriteFile(u.path, u.data)
                           [] outcome = "open_error" -> files
                           [] outcome = "write_error" ->
                                  WriteFile(u.path, Truncated(u.data))
             /\ uploads' = [uploads EXCEPT ![r] =
                   IF save_upload_file(outcome) = "returned"
                   THEN [@ EXCEPT !.pc = "insert",
                                  !.wrote = IF outcome = "ok" THEN "ok"
                                            ELSE "failed"]
                   ELSE [@ EXCEPT !.pc = "done", !.wrote = "failed",
                                  !.status = 500]]
    /\ UNCHANGED <<patients, studies, images, deletes, uuidCount, rowCount,
                   accessLog,
                   authVars, acctVars>>

\* the images table without the foreign key on study_id
InsertAllowed_no_foreign_key(study_id, stored) ==
    \A i \in images : i.stored_filename # stored

\* images.study_id references studies.id; images.stored_filename is unique
InsertAllowed(study_id, stored) ==
    /\ get_study(study_id) # {}
    /\ \A i \in images : i.stored_filename # stored

\* main.py: the second sniff reads the stored file back; then create_image
upload_insert(r) ==
    /\ uploads[r].pc = "insert"
    /\ LET u == uploads[r]
           onDisk == FileAt(u.path)
       IN  IF onDisk = {}
           THEN /\ uploads' = [uploads EXCEPT ![r] =
                       [@ EXCEPT !.pc = "done", !.status = 500]]
                /\ UNCHANGED <<images, rowCount>>
           ELSE LET f == CHOOSE f \in onDisk : TRUE
                IN  IF ~validate_mime_type(Prefix(f.data))
                    THEN /\ uploads' = [uploads EXCEPT ![r] =
                                [@ EXCEPT !.pc = "done", !.status = 400,
                                          !.detail = Detail400(<<1, 2>>)]]
                         /\ UNCHANGED <<images, rowCount>>
                    ELSE IF ~InsertAllowed(u.study_id, u.stored)
                    THEN /\ uploads' = [uploads EXCEPT ![r] =
                                [@ EXCEPT !.pc = "done", !.status = 500]]
                         /\ UNCHANGED <<images, rowCount>>
                    ELSE /\ images' = images \cup
                              {[id |-> rowCount.images + 1,
                                study_id |-> u.study_id,
                                filename |-> u.filename,
                                stored_filename |-> u.stored,
                                file_path |-> u.path,
                                file_size |-> u.data.size,
                                mime_type |-> SniffedMime(Prefix(f.data))]}
                         /\ rowCount' = [rowCount EXCEPT !.images = @ + 1]
                         /\ uploads' = [uploads EXCEPT ![r] =
                                [@ EXCEPT !.pc = "done", !.status = 201]]
    /\ UNCHANGED <<patients, studies, files, deletes, uuidCount, accessLog,
                   authVars, acctVars>>

(***************************************************************************)
(* delete_image (main.py) over crud.delete_image and delete_file           *)
(* pc: idle -> commit -> blob -> done                                      *)
(***************************************************************************)
IdleRequest ==
    [pc |-> "idle", op |-> None, id |-> 0, key |-> None, conflict |-> FALSE,
     missing |-> FALSE, status |-> 0]

IdleDelete ==
    [pc |-> "idle", study_id |-> 0, image_id |-> 0, path |-> <<>>,
     blob |-> None, status |-> 0]

\* delete_file without its try/except
delete_file_raises(outcome) ==
    IF outcome = "unlink_error" THEN "raised" ELSE "returned"

\* delete_file: try: if path.exists(): path.unlink()  except Exception: print
\* What the caller sees for each thing that can happen to the blob.
delete_file(outcome) == "returned"

\* main.py delete_image: the checks before crud.delete_image
delete_check(d, bearer) ==
    /\ deletes[d].pc = "idle"
    /\ d > 1 => deletes[d - 1].pc # "idle"
    /\ Admitted("delete_image", bearer)
    /\ \E study_id \in StudyIds, image_id \in ImageIds :
         LET image == get_image(image_id)
             st == IF get_study(study_id) = {} THEN 404
                   ELSE IF image = {} THEN 404
                   ELSE IF \E i \in image : i.study_id # study_id THEN 403
                   ELSE 0
         IN  deletes' = [deletes EXCEPT ![d] =
                [@ EXCEPT !.pc = IF st = 0 THEN "commit" ELSE "done",
                          !.study_id = study_id, !.image_id = image_id,
                          !.status = st]]
    /\ UNCHANGED <<patients, studies, images, files, uploads, uuidCount,
                   rowCount,
                   authVars, acctVars>>

\* crud.delete_image up to db.commit(); the handler ignores its result
delete_commit(d) ==
    /\ deletes[d].pc = "commit"
    /\ LET image == get_image(deletes[d].image_id)
       IN  IF image = {}
           THEN /\ deletes' = [deletes EXCEPT ![d] =
                       [@ EXCEPT !.pc = "done", !.status = 204]]
                /\ UNCHANGED images
           ELSE /\ images' = images \ image
                /\ deletes' = [deletes EXCEPT ![d] =
                       [@ EXCEPT !.pc = "blob",
                                 !.path = (CHOOSE i \in image : TRUE).file_path]]
    /\ UNCHANGED <<patients, studies, files, uploads, uuidCount, rowCount,
                   accessLog,
                   authVars, acctVars>>

\* crud.delete_image after the commit: delete_file(file_path)
delete_blob(d) ==
    /\ deletes[d].pc = "blob"
    /\ \E outcome \in {"absent", "removed", "unlink_error"} :
         /\ outcome = "absent" <=> FileAt(deletes[d].path) = {}
         /\ files' = IF outcome = "removed"
                     THEN files \ FileAt(deletes[d].path) ELSE files
         /\ deletes' = [deletes EXCEPT ![d] =
               [@ EXCEPT !.pc = "done", !.blob = outcome,
                         !.status = IF delete_file(outcome) = "returned"
                                    THEN 204 ELSE 500]]
    /\ UNCHANGED <<patients, studies, images, uploads, uuidCount, rowCount,
                   accessLog,
                   authVars, acctVars>>

\* a file of the upload root removed by hand, outside the program
EnvRemoveFile ==
    /\ \E f \in files : files' = files \ {f}
    /\ UNCHANGED <<patients, studies, images, uploads, deletes, uuidCount,
                   rowCount, accessLog,
                   authVars, acctVars>>

\* no request of the account and record handlers made; the configuration
\* holds a secret
AcctIdle ==
    /\ requests = [r \in Requests |-> IdleRequest]
    /\ secretKey = "secret"
    /\ started = TRUE
    /\ saltCount = 0
    /\ hashLog = {}

(***************************************************************************)
(* Specification of the record and upload handlers                         *)
(***************************************************************************)
Init ==
    /\ patients = {}
    /\ studies = {}
    /\ images = {}
    /\ files = {}
    /\ uploads = [r \in Uploads |-> IdleUpload]
    /\ deletes = [d \in Deletes |-> IdleDelete]
    /\ uuidCount = 0
    /\ rowCount = [patients |-> 0, studies |-> 0, images |-> 0]
    /\ accessLog = {}
    /\ users = {}
    /\ now = 0
    /\ issued = {}
    /\ lastCall = NoCall
    /\ bodies401 = {}
    /\ AcctIdle

\* One upload and one deletion in flight among the patient and study
\* handlers.
Next ==
    \/ \E bearer \in Bearers, mrn \in Mrns : create_patient(mrn, bearer)
    \/ \E bearer \in Bearers, p \in PatientIds : create_study(p, bearer)
    \/ \E bearer \in Bearers, s \in StudyIds : delete_study(s, bearer)
    \/ \E bearer \in Bearers, p \in PatientIds : delete_patient(p, bearer)
    \/ \E bearer \in Bearers : upload_begin(1, FileNames, Contents, bearer)
    \/ upload_validate(1)
    \/ upload_write(1)
    \/ upload_insert(1)
    \/ \E bearer \in Bearers : delete_check(1, bearer)
    \/ delete_commit(1)
    \/ delete_blob(1)
    \/ EnvRemoveFile

Spec == Init /\ [][Next]_vars

(***************************************************************************)
(* Concurrent uploads to one study: the state after one create_patient and *)
(* one create_study, then MaxUploads upload requests in any interleaving.  *)
(***************************************************************************)
InitOneStudy ==
    /\ patients = {[id |-> 1, mrn |-> "MRN1"]}
    /\ studies = {[id |-> 1, patient_id |-> 1]}
    /\ images = {}
    /\ files = {}
    /\ uploads = [r \in Uploads |-> IdleUpload]
    /\ deletes = [d \in Deletes |-> IdleDelete]
    /\ uuidCount = 0
    /\ rowCount = [patients |-> 1, studies |-> 1, images |-> 0]
    /\ accessLog = {}
    /\ users = {}
    /\ now = 0
    /\ issued = {}
    /\ lastCall = NoCall
    /\ bodies401 = {}
    /\ AcctIdle

PairNames == {<<"scan", ".", "png">>, <<"scan", ".", "PNG">>}
PairContents == {[head |-> "PNG", size |-> 4096]}

NextPair ==
    \/ \E bearer \in Bearers, r \in Uploads :
          upload_begin(r, PairNames, PairContents, bearer)
    \/ \E r \in Uploads : upload_validate(r)
    \/ \E r \in Uploads : upload_write(r)
    \/ \E r \in Uploads : upload_insert(r)

SpecPair == InitOneStudy /\ [][NextPair]_vars

(***************************************************************************)
(* One upload whose original filename is any name of at most MaxNameLen    *)
(* tokens.                                                                 *)
(***************************************************************************)
NextNames ==
    \/ \E bearer \in Bearers :
          upload_begin(1, AllNames, PairContents, bearer)
    \/ upload_validate(1)
    \/ upload_write(1)
    \/ upload_insert(1)

SpecNames == InitOneStudy /\ [][NextNames]_vars


(***************************************************************************)
(* auth_utils.py: tokens and the access gate                               *)
(*                                                                         *)
(* The clock counts ticks, TicksPerSecond to the second.  jose writes a    *)
(* datetime claim as timegm(utctimetuple()), whole seconds, and reads the  *)
(* clock the same way when it validates "exp".                             *)
(***************************************************************************)
UserIds == 1..MaxUsers

Seconds(t) == t \div TicksPerSecond

\* expires_delta: a number of seconds, 0 for None
Ttls == 0..MaxTtl

Lifetime(expires_delta) ==
    IF expires_delta # 0 THEN expires_delta ELSE ACCESS_TOKEN_EXPIRE

\* create_access_token at instant t: to_encode = data.copy(); expire =
\* utcnow() + delta; to_encode.update({"exp": expire}); then jwt.encode
\* signs the claims with SECRET_KEY
create_access_token(data, expires_delta, t) ==
    [kind |-> "jwt", sig |-> "good",
     exp |-> Seconds(t + Lifetime(expires_delta) * TicksPerSecond)] @@ data

\* jose _validate_exp: if exp < now: raise ExpiredSignatureError
jwt_expired(exp, t) == exp < Seconds(t)

\* jwt.decode(token, SECRET_KEY, algorithms=[ALGORITHM]): TRUE when it
\* returns the payload, FALSE when it raises a JWTError
jwt_decode(token, t) ==
    /\ token.kind = "jwt"
    /\ token.sig = "good"
    /\ ~jwt_expired(token.exp, t)

Unauthorized(detail, headers) ==
    [status |-> 401, detail |-> detail, headers |-> headers, user |-> 0]

decode_access_token(token, t) ==
    IF jwt_decode(token, t)
    THEN [status |-> 200, detail |-> "", headers |-> "", user |-> 0]
    ELSE Unauthorized("Could not validate credentials",
                      "WWW-Authenticate: Bearer")

\* get_current_user with the is_active test left out
get_current_user_no_active_test(token, t) ==
    LET decoded == decode_access_token(token, t)
        found == {u \in users : u.id = token.sub}
    IN  IF decoded.status # 200 THEN decoded
        ELSE IF token.sub = 0
        THEN Unauthorized("Invalid authentication credentials", "")
        ELSE IF found = {} THEN Unauthorized("User not found", "")
        ELSE [status |-> 200, detail |-> "", headers |-> "",
              user |-> token.sub]

\* get_current_user: sub = 0 stands for a payload without "sub"
get_current_user(token, t) ==
    LET decoded == decode_access_token(token, t)
        found == {u \in users : u.id = token.sub}
    IN  IF decoded.status # 200 THEN decoded
        ELSE IF token.sub = 0
        THEN Unauthorized("Invalid authentication credentials", "")
        ELSE IF found = {} THEN Unauthorized("User not found", "")
        ELSE IF \E u \in found : ~u.is_active
        THEN [status |-> 403, detail |-> "User account is disabled",
              headers |-> "", user |-> 0]
        ELSE [status |-> 200, detail |-> "", headers |-> "",
              user |-> token.sub]

\* tokens a client can present without having been issued them
OtherTokens ==
    {[kind |-> "garbage", sig |-> "bad", sub |-> 0, exp |-> 0]}
    \cup {[kind |-> "jwt", sig |-> "bad", sub |-> u, exp |-> Seconds(MaxTime) + 1]
          : u \in UserIds}
    \cup {[kind |-> "jwt", sig |-> "good", sub |-> u, exp |-> Seconds(MaxTime) + 1]
          : u \in {0, MaxUsers + 1}}

Tick ==
    /\ now < MaxTime
    /\ now' = now + 1
    /\ UNCHANGED <<repoVars, acctVars, users, issued, lastCall, bodies401>>

\* a token issued for an identity of the repository (login's call); the
\* model follows the token issued last
issue_token ==
    /\ \E u \in users, expires_delta \in Ttls :
         issued' =
            {[token |-> create_access_token([sub |-> u.id], expires_delta, now),
              t0 |-> now,
              ttl |-> Lifetime(expires_delta) * TicksPerSecond]}
    /\ UNCHANGED <<repoVars, acctVars, users, now, lastCall, bodies401>>

decode_issued ==
    /\ \E i \in issued :
         lastCall' = [fn |-> "decode_access_token", token |-> i.token,
                      at |-> now,
                      response |-> decode_access_token(i.token, now)]
    /\ UNCHANGED <<repoVars, acctVars, users, now, issued, bodies401>>

authenticate ==
    /\ \E token \in {i.token : i \in issued} \cup OtherTokens :
         LET response == get_current_user(token, now)
         IN  /\ lastCall' = [fn |-> "get_current_user", token |-> token,
                             at |-> now, response |-> response]
             /\ bodies401' = IF response.status = 401
                             THEN bodies401 \cup {response.detail}
                             ELSE bodies401
    /\ UNCHANGED <<repoVars, acctVars, users, now, issued>>

\* table "users" as the process finds it: is_active is written outside this
\* code base
UserTables ==
    {t \in SUBSET [id : UserIds, is_active : BOOLEAN] :
        \A a, b \in t : a.id = b.id => a = b}

InitAuth ==
    /\ patients = {}
    /\ studies = {}
    /\ images = {}
    /\ files = {}
    /\ uploads = [r \in Uploads |-> IdleUpload]
    /\ deletes = [d \in Deletes |-> IdleDelete]
    /\ uuidCount = 0
    /\ rowCount = [patients |-> 0, studies |-> 0, images |-> 0]
    /\ accessLog = {}
    /\ users \in UserTables
    /\ now = 0
    /\ issued = {}
    /\ lastCall = NoCall
    /\ bodies401 = {}
    /\ AcctIdle

NextAuth ==
    \/ Tick
    \/ issue_token
    \/ decode_issued
    \/ authenticate

SpecAuth == InitAuth /\ [][NextAuth]_vars

(***************************************************************************)
(* passlib CryptContext(schemes=["bcrypt"]) behind hash_password and       *)
(* verify_password.  A plaintext is a sequence of characters, "NUL" the    *)
(* character U+0000; the plaintexts of the model are shorter than the 72   *)
(* bytes bcrypt reads.  An encoded hash names its scheme and carries the   *)
(* salt and the digest; the digest of a secret under a salt is the pair.   *)
(***************************************************************************)
Plaintexts == {<<"p", "w", "1">>, <<"q", "w", "2">>, <<"p", "NUL", "1">>}

HasNul(secret) == \E k \in 1..Len(secret) : secret[k] = "NUL"

bcrypt(secret, salt) ==
    [scheme |-> "2b", salt |-> salt, digest |-> <<secret, salt>>]

\* stored hash strings no scheme of the context identifies, or that the
\* bcrypt handler cannot parse
MalformedHashes ==
    {[scheme |-> "", salt |-> 0, digest |-> <<>>],
     [scheme |-> "plain", salt |-> 0, digest |-> <<"p", "w", "1">>],
     [scheme |-> "2b", salt |-> 0, digest |-> <<>>]}

WellFormedHash(h) == h.scheme = "2b" /\ h.salt > 0 /\ h.digest # <<>>

Returned(value) == [outcome |-> "returned", value |-> value]
Raised(exc) == [outcome |-> "raised", value |-> exc]

\* pwd_context.hash(password) with the salt drawn for this call: the bcrypt
\* handler refuses a secret that holds a NUL
hash_password(password, salt) ==
    IF HasNul(password) THEN Raised("PasswordValueError")
    ELSE Returned(bcrypt(password, salt))

\* pwd_context.verify(plain_password, hashed_password): a hash that no
\* scheme identifies raises UnknownHashError, one the handler cannot parse
\* raises too
verify_password(plain_password, hashed_password) ==
    IF ~WellFormedHash(hashed_password) THEN Raised("UnknownHashError")
    ELSE IF HasNul(plain_password) THEN Raised("PasswordValueError")
    ELSE Returned(hashed_password = bcrypt(plain_password,
                                           hashed_password.salt))

(***************************************************************************)
(* Requests of register (auth_routes.py) and of the patient and study      *)
(* handlers (main.py over crud.py), each on its own session.  register,    *)
(* create_patient and update_patient look the row up first and commit in a *)
(* later step, so steps of another request fall in between.                *)
(***************************************************************************)
RowIds == 1..MaxRows
Emails == {"a@example.com", "b@example.com"}
UserRoles == {"ADMIN", "DOCTOR", "PATIENT"}

Begin(r) ==
    /\ requests[r].pc = "idle"
    /\ r > 1 => requests[r - 1].pc # "idle"

Done(r, op, id, key, conflict, missing, status) ==
    requests' = [requests EXCEPT ![r] =
        [pc |-> "done", op |-> op, id |-> id, key |-> key,
         conflict |-> conflict, missing |-> missing, status |-> status]]

Pending(r, op, id, key) ==
    requests' = [requests EXCEPT ![r] =
        [pc |-> "commit", op |-> op, id |-> id, key |-> key,
         conflict |-> FALSE, missing |-> FALSE, status |-> 0]]

\* User.email: unique=True
EmailTaken(email) == \E u \in users : u.email = email

\* unique=True left out of the column
MrnTaken_unconstrained(mrn, own_id) == FALSE

\* Patient.mrn: unique=True
MrnTaken(mrn, own_id) ==
    \E p \in patients : p.mrn = mrn /\ p.id # own_id

recUnchanged == <<images, files, uploads, deletes, uuidCount, accessLog,
                  now, issued, lastCall, bodies401, secretKey, started,
                  hashLog>>

\* register up to db.add: the lookup by email, then hash_password
req_register(r, email, password) ==
    /\ Begin(r)
    /\ IF \E u \in users : u.email = email
       THEN /\ Done(r, "register", 0, email, TRUE, FALSE, 400)
            /\ UNCHANGED saltCount
       ELSE LET hashed == hash_password(password, saltCount + 1)
            IN  /\ saltCount' = saltCount + 1
                /\ IF hashed.outcome = "raised"
                   THEN Done(r, "register", 0, email, FALSE, FALSE, 500)
                   ELSE Pending(r, "register", saltCount + 1, email)
    /\ UNCHANGED <<patients, studies, users, rowCount, recUnchanged>>

\* register: db.commit(); an IntegrityError is not caught
req_register_commit(r) ==
    /\ requests[r].pc = "commit" /\ requests[r].op = "register"
    /\ EmailTaken(requests[r].key) \/ Cardinality(users) < MaxRows
    /\ LET q == requests[r]
       IN  IF EmailTaken(q.key)
           THEN /\ Done(r, q.op, q.id, q.key, TRUE, FALSE, 500)
                /\ UNCHANGED users
           ELSE /\ users' = users \cup
                      {[id |-> Cardinality(users) + 1, email |-> q.key,
                        hashed_password |-> bcrypt(<<"p", "w", "1">>, q.id),
                        role |-> "PATIENT", is_active |-> TRUE]}
                /\ Done(r, q.op, q.id, q.key, FALSE, FALSE, 201)
    /\ UNCHANGED <<patients, studies, rowCount, saltCount, recUnchanged>>

\* main.create_patient up to crud.create_patient
req_create_patient(r, mrn) ==
    /\ Begin(r)
    /\ IF get_patient_by_mrn(mrn) # {}
       THEN Done(r, "create_patient", 0, mrn, TRUE, FALSE, 400)
       ELSE Pending(r, "create_patient", 0, mrn)
    /\ UNCHANGED <<patients, studies, users, rowCount, saltCount,
                   recUnchanged>>

\* crud.create_patient: commit; on IntegrityError rollback and re-raise,
\* which main.create_patient leaves to general_exception_handler
req_create_patient_commit(r) ==
    /\ requests[r].pc = "commit" /\ requests[r].op = "create_patient"
    /\ MrnTaken(requests[r].key, 0) \/ rowCount.patients < MaxRows
    /\ LET q == requests[r]
       IN  IF MrnTaken(q.key, 0)
           THEN /\ Done(r, q.op, q.id, q.key, TRUE, FALSE, 500)
                /\ UNCHANGED <<patients, rowCount>>
           ELSE /\ patients' = patients \cup
                      {[id |-> rowCount.patients + 1, mrn |-> q.key]}
                /\ rowCount' = [rowCount EXCEPT !.patients = @ + 1]
                /\ Done(r, q.op, rowCount.patients + 1, q.key, FALSE, FALSE,
                        201)
    /\ UNCHANGED <<studies, users, saltCount, recUnchanged>>

\* crud.update_patient up to db.commit(); key is the new MRN, None when the
\* update leaves the MRN unset
req_update_patient(r, patient_id, mrn) ==
    /\ Begin(r)
    /\ IF get_patient(patient_id) = {}
       THEN Done(r, "update_patient", patient_id, mrn, FALSE, TRUE, 404)
       ELSE Pending(r, "update_patient", patient_id, mrn)
    /\ UNCHANGED <<patients, studies, users, rowCount, saltCount,
                   recUnchanged>>

\* crud.update_patient: db.commit() and db.refresh(); neither the crud
\* function nor main.update_patient catches what they raise
req_update_patient_commit(r) ==
    /\ requests[r].pc = "commit" /\ requests[r].op = "update_patient"
    /\ LET q == requests[r]
       IN  IF get_patient(q.id) = {}
           THEN /\ Done(r, q.op, q.id, q.key, FALSE, FALSE, 500)
                /\ UNCHANGED patients
           ELSE IF q.key # None /\ MrnTaken(q.key, q.id)
           THEN /\ Done(r, q.op, q.id, q.key, TRUE, FALSE, 500)
                /\ UNCHANGED patients
           ELSE /\ patients' =
                      {IF p.id = q.id /\ q.key # None
                       THEN [p EXCEPT !.mrn = q.key] ELSE p : p \in patients}
                /\ Done(r, q.op, q.id, q.key, FALSE, FALSE, 200)
    /\ UNCHANGED <<studies, users, rowCount, saltCount, recUnchanged>>

\* main.get_patient, main.get_study, main.update_study: the row is looked
\* up by id (update_study writes columns the model does not hold)
req_get(r, op, id) ==
    /\ Begin(r)
    /\ LET rows == IF op = "get_patient" THEN get_patient(id)
                   ELSE get_study(id)
       IN  IF rows = {} THEN Done(r, op, id, None, FALSE, TRUE, 404)
           ELSE Done(r, op, id, None, FALSE, FALSE, 200)
    /\ UNCHANGED <<patients, studies, users, rowCount, saltCount,
                   recUnchanged>>

\* main.create_study: the patient is looked up, then crud.create_study
req_create_study(r, patient_id) ==
    /\ Begin(r)
    /\ get_patient(patient_id) = {} \/ rowCount.studies < MaxRows
    /\ IF get_patient(patient_id) = {}
       THEN /\ Done(r, "create_study", patient_id, None, FALSE, TRUE, 400)
            /\ UNCHANGED <<studies, rowCount>>
       ELSE /\ studies' = studies \cup
                  {[id |-> rowCount.studies + 1, patient_id |-> patient_id]}
            /\ rowCount' = [rowCount EXCEPT !.studies = @ + 1]
            /\ Done(r, "create_study", patient_id, None, FALSE, FALSE, 201)
    /\ UNCHANGED <<patients, users, saltCount, recUnchanged>>

\* main.delete_patient over crud.delete_patient
req_delete_patient(r, patient_id) ==
    /\ Begin(r)
    /\ IF get_patient(patient_id) = {}
       THEN /\ Done(r, "delete_patient", patient_id, None, FALSE, TRUE, 404)
            /\ UNCHANGED <<patients, studies>>
       ELSE /\ patients' = patients \ get_patient(patient_id)
            /\ studies' = {s \in studies : s.patient_id # patient_id}
            /\ Done(r, "delete_patient", patient_id, None, FALSE, FALSE, 204)
    /\ UNCHANGED <<users, rowCount, saltCount, recUnchanged>>

\* main.delete_study over crud.delete_study
req_delete_study(r, study_id) ==
    /\ Begin(r)
    /\ IF get_study(study_id) = {}
       THEN /\ Done(r, "delete_study", study_id, None, FALSE, TRUE, 404)
            /\ UNCHANGED studies
       ELSE /\ studies' = studies \ get_study(study_id)
            /\ Done(r, "delete_study", study_id, None, FALSE, FALSE, 204)
    /\ UNCHANGED <<patients, users, rowCount, saltCount, recUnchanged>>

InitRecords ==
    /\ patients = {}
    /\ studies = {}
    /\ images = {}
    /\ files = {}
    /\ uploads = [r \in Uploads |-> IdleUpload]
    /\ deletes = [d \in Deletes |-> IdleDelete]
    /\ uuidCount = 0
    /\ rowCount = [patients |-> 0, studies |-> 0, images |-> 0]
    /\ accessLog = {}
    /\ users = {}
    /\ now = 0
    /\ issued = {}
    /\ lastCall = NoCall
    /\ bodies401 = {}
    /\ AcctIdle

NextRecords ==
    \/ \E r \in Requests, email \in Emails :
          req_register(r, email, <<"p", "w", "1">>)
    \/ \E r \in Requests : req_register_commit(r)
    \/ \E r \in Requests, mrn \in Mrns : req_create_patient(r, mrn)
    \/ \E r \in Requests : req_create_patient_commit(r)
    \/ \E r \in Requests, id \in RowIds, mrn \in Mrns \cup {None} :
          req_update_patient(r, id, mrn)
    \/ \E r \in Requests : req_update_patient_commit(r)
    \/ \E r \in Requests, id \in RowIds,
          op \in {"get_patient", "get_study", "update_study"} :
          req_get(r, op, id)
    \/ \E r \in Requests, id \in RowIds : req_create_study(r, id)
    \/ \E r \in Requests, id \in RowIds : req_delete_patient(r, id)
    \/ \E r \in Requests, id \in RowIds : req_delete_study(r, id)

SpecRecords == InitRecords /\ [][NextRecords]_vars


(***************************************************************************)
(* Round trip of a patient record: POST /patients/ then                    *)
(* GET /patients/{patient_id}.  A patient row holds every column here; a   *)
(* date is a number of days counted from today, a timestamp is written by  *)
(* the column default datetime.utcnow.                                     *)
(***************************************************************************)
PatientInputs ==
    [mrn : Mrns, first_name : {"John"}, last_name : {"Doe"},
     date_of_birth : {-1, 1}]

\* PatientBase.validate_dob: a date after date.today() is refused
validate_dob(v) == ~(v > 0)

Timestamp(t) == [set |-> TRUE, at |-> t]

\* models.Patient(**patient.model_dump()) with the column defaults
PatientRow(id, input, t) ==
    [id |-> id, mrn |-> input.mrn, first_name |-> input.first_name,
     last_name |-> input.last_name, date_of_birth |-> input.date_of_birth,
     created_at |-> Timestamp(t), updated_at |-> Timestamp(t)]

\* main.create_patient over crud.create_patient, in one step
post_patient(r, input) ==
    /\ Begin(r)
    /\ rowCount.patients < MaxRows
    /\ IF ~validate_dob(input.date_of_birth)
       THEN /\ Done(r, "create_patient", 0, input, FALSE, FALSE, 422)
            /\ UNCHANGED <<patients, rowCount>>
       ELSE IF get_patient_by_mrn(input.mrn) # {}
       THEN /\ Done(r, "create_patient", 0, input, TRUE, FALSE, 400)
            /\ UNCHANGED <<patients, rowCount>>
       ELSE /\ patients' = patients \cup
                  {PatientRow(rowCount.patients + 1, input, now)}
            /\ rowCount' = [rowCount EXCEPT !.patients = @ + 1]
            /\ Done(r, "create_patient", rowCount.patients + 1, input,
                    FALSE, FALSE, 201)
    /\ UNCHANGED <<studies, users, saltCount, recUnchanged>>

\* the query parameter "uuid" not sent
NoUuid == 0

\* @app.get("/patients/{patient_id}") def get_patient(uuid: UUID, db): the
\* function declares no parameter named patient_id, so the path segment is
\* bound to nothing and "uuid" is a required query parameter; the row is
\* looked up by it
fetch_patient(r, patient_id, uuid) ==
    /\ Begin(r)
    /\ IF uuid = NoUuid
       THEN Done(r, "get_patient", patient_id,
                 [uuid |-> uuid, body |-> {}], FALSE, FALSE, 422)
       ELSE IF get_patient(uuid) = {}
       THEN Done(r, "get_patient", patient_id,
                 [uuid |-> uuid, body |-> {}], FALSE, TRUE, 404)
       ELSE Done(r, "get_patient", patient_id,
                 [uuid |-> uuid, body |-> get_patient(uuid)], FALSE, FALSE,
                 200)
    /\ UNCHANGED <<patients, studies, users, rowCount, saltCount,
                   recUnchanged>>

NextRoundTrip ==
    \/ \E r \in Requests, input \in PatientInputs : post_patient(r, input)
    \/ \E r \in Requests, id \in RowIds, uuid \in RowIds \cup {NoUuid} :
          fetch_patient(r, id, uuid)
    \/ \E r \in Requests, id \in RowIds, mrn \in Mrns \cup {None} :
          req_update_patient(r, id, mrn)
    \/ \E r \in Requests : req_update_patient_commit(r)
    \/ \E r \in Requests, id \in RowIds : req_delete_patient(r, id)

SpecRoundTrip == InitRecords /\ [][NextRoundTrip]_vars

(***************************************************************************)
(* Start-up, login and the role check (main.py, auth_routes.py,            *)
(* auth_utils.py) over a users table and a configuration the process       *)
(* finds.                                                                  *)
(***************************************************************************)

\* main.py at import and startup_event: crud, models, schemas, file_utils
\* and database are imported and the upload directory is prepared; nothing
\* reads or tests SECRET_KEY, and os.getenv returns None for an absent one
startup ==
    /\ ~started
    /\ started' = TRUE
    /\ UNCHANGED <<repoVars, authVars, requests, secretKey, saltCount,
                   hashLog>>

\* jwt.encode / jwt.decode with key = None: jwk.construct refuses the key
KeyUsable == secretKey # None

ServerError ==
    [status |-> 500, detail |-> "An unexpected error occurred.",
     headers |-> "", user |-> 0]

\* get_current_user under the configured key
current_user(token) ==
    IF ~KeyUsable /\ token.kind = "jwt" THEN ServerError
    ELSE get_current_user(token, now)

\* role_checker that lets every role through
role_checker_any(user, allowed_roles) ==
    [status |-> 200, detail |-> "", headers |-> "", user |-> user.id]

\* require_role(allowed_roles): role_checker(current_user)
role_checker(user, allowed_roles) ==
    IF user.role \notin allowed_roles
    THEN [status |-> 403, detail |-> "Insufficient permissions.",
          headers |-> "", user |-> 0]
    ELSE [status |-> 200, detail |-> "", headers |-> "", user |-> user.id]

\* the claims login puts into the token of a user
LoginClaims(id, email, role) == [sub |-> id, email |-> email, role |-> role]

\* tokens signed with the secret for the rows of users (issued by an earlier
\* login, when the row held the role the token names), the token issued
\* last, and the tokens nobody was issued
AccountTokens ==
    {[kind |-> "jwt", sig |-> "good", exp |-> Seconds(MaxTime) + 1]
        @@ LoginClaims(u.id, u.email, role) :
           u \in users, role \in UserRoles}
    \cup {i.token : i \in issued} \cup OtherTokens

\* the identity taken from the token's claims
LoadedUser_from_claims(token) == [id |-> token.sub, role |-> token.role]

\* get_current_user: user = db.query(User).filter(User.id == user_id).first()
LoadedUser(token) == CHOOSE u \in users : u.id = token.sub

\* a dependency require_role(allowed_roles): get_current_user is resolved
\* first, role_checker runs only with its result
authorize(allowed_roles) ==
    /\ started
    /\ \E token \in AccountTokens :
         LET auth == current_user(token)
             user == LoadedUser(token)
         IN  lastCall' =
                [fn |-> "require_role", token |-> token,
                 allowed |-> allowed_roles, auth |-> auth,
                 checked |-> (auth.status = 200),
                 response |-> IF auth.status # 200 THEN auth
                              ELSE role_checker(user, allowed_roles),
                 body |-> {}]
    /\ UNCHANGED <<repoVars, acctVars, users, now, issued, bodies401>>

\* list_users: Depends(require_role([UserRole.ADMIN])), then the query
list_users ==
    /\ started
    /\ \E token \in AccountTokens :
         LET auth == current_user(token)
             user == LoadedUser(token)
             response == IF auth.status # 200 THEN auth
                         ELSE role_checker(user, {"ADMIN"})
         IN  lastCall' =
                [fn |-> "list_users", token |-> token,
                 allowed |-> {"ADMIN"}, auth |-> auth,
                 checked |-> (auth.status = 200),
                 response |-> response,
                 body |-> IF response.status = 200 THEN users ELSE {}]
    /\ UNCHANGED <<repoVars, acctVars, users, now, issued, bodies401>>

\* a call of hash_password: the salt is the next one drawn
hash_call ==
    /\ saltCount < MaxUsers + MaxHashCalls
    /\ \E password \in Plaintexts :
         /\ hashLog' = hashLog \cup
               {[password |-> password, call |-> saltCount + 1,
                 result |-> hash_password(password, saltCount + 1)]}
         /\ saltCount' = saltCount + 1
    /\ UNCHANGED <<repoVars, authVars, requests, secretKey, started>>

\* a call of verify_password on a hash hash_password returned, a stored
\* hash, or a malformed one
verify_call ==
    /\ \E plain \in Plaintexts,
          hashed \in {h.result.value :
                        h \in {x \in hashLog : x.result.outcome = "returned"}}
                     \cup {u.hashed_password : u \in users}
                     \cup MalformedHashes :
         lastCall' = [fn |-> "verify_password", plain |-> plain,
                      hashed |-> hashed,
                      response |-> verify_password(plain, hashed)]
    /\ UNCHANGED <<repoVars, acctVars, users, now, issued, bodies401>>

\* login: lookup by email, verify_password, is_active, create_access_token,
\* last_login
login ==
    /\ started
    /\ \E email \in Emails, password \in Plaintexts :
         LET found == {u \in users : u.email = email}
             user == CHOOSE u \in found : TRUE
             verified == verify_password(password, user.hashed_password)
             token == create_access_token(
                         LoginClaims(user.id, user.email, user.role),
                         ACCESS_TOKEN_EXPIRE, now)
             status == IF found = {} THEN 401
                       ELSE IF verified.outcome = "raised" THEN 500
                       ELSE IF ~verified.value THEN 401
                       ELSE IF ~user.is_active THEN 403
                       ELSE IF ~KeyUsable THEN 500
                       ELSE 200
         IN  /\ lastCall' = [fn |-> "login", email |-> email,
                             plain |-> password, status |-> status,
                             user |-> IF found = {} THEN 0 ELSE user.id]
             /\ issued' = IF status = 200
                          THEN {[token |-> token, t0 |-> now,
                                 ttl |-> ACCESS_TOKEN_EXPIRE * TicksPerSecond]}
                          ELSE issued
             \* user.last_login = datetime.utcnow(); db.commit()
             /\ users' = IF status = 200
                         THEN (users \ {user}) \cup
                              {[user EXCEPT !.last_login = Timestamp(now)]}
                         ELSE users
    /\ UNCHANGED <<repoVars, acctVars, now, bodies401>>

UserEmail(id) ==
    CASE id = 1 -> "a@example.com"
      [] id = 2 -> "b@example.com"
      [] OTHER -> "c@example.com"

\* last_login: Column(DateTime, nullable=True), NULL until a login sets it
NullTimestamp == [set |-> FALSE, at |-> 0]

Row(id, hashed_password, role, is_active) ==
    [id |-> id, email |-> UserEmail(id), hashed_password |-> hashed_password,
     role |-> role, is_active |-> is_active, last_login |-> NullTimestamp]

OneRowPerId(t) == \A a, b \in t : a.id = b.id => a = b

\* table "users" as the process finds it: rows written by register (the
\* password hashed with the salt drawn then), whose role and is_active may
\* have been rewritten since
AccountTables ==
    {t \in SUBSET {Row(id, bcrypt(<<"p", "w", "1">>, id), role, is_active) :
                     id \in UserIds, role \in UserRoles,
                     is_active \in BOOLEAN} : OneRowPerId(t)}

\* table "users" whose hashed_password column may hold a string that is
\* not a bcrypt hash
CredentialTables ==
    {t \in SUBSET UNION {{Row(id, h, "PATIENT", TRUE) :
                             h \in {bcrypt(<<"p", "w", "1">>, id)}
                                      \cup MalformedHashes} :
                           id \in UserIds} : OneRowPerId(t)}

InitAccounts ==
    /\ patients = {}
    /\ studies = {}
    /\ images = {}
    /\ files = {}
    /\ uploads = [r \in Uploads |-> IdleUpload]
    /\ deletes = [d \in Deletes |-> IdleDelete]
    /\ uuidCount = 0
    /\ rowCount = [patients |-> 0, studies |-> 0, images |-> 0]
    /\ accessLog = {}
    /\ users \in AccountTables
    /\ now = 0
    /\ issued = {}
    /\ lastCall = NoCall
    /\ bodies401 = {}
    /\ requests = [r \in Requests |-> IdleRequest]
    /\ secretKey \in {None, "secret"}
    /\ started = FALSE
    /\ saltCount = MaxUsers
    /\ hashLog = {}

\* the role column of a row rewritten (no handler of this code base does it)
EnvSetRole ==
    /\ \E u \in users :
         \E role \in UserRoles \ {u.role} :
            users' = (users \ {u}) \cup {[u EXCEPT !.role = role]}
    /\ UNCHANGED <<repoVars, acctVars, now, issued, lastCall, bodies401>>

NextAccounts ==
    \/ startup
    \/ \E allowed_roles \in SUBSET UserRoles : authorize(allowed_roles)
    \/ list_users
    \/ login

SpecAccounts == InitAccounts /\ [][NextAccounts]_vars

NextRoles ==
    \/ startup
    \/ \E allowed_roles \in SUBSET UserRoles : authorize(allowed_roles)
    \/ list_users
    \/ login
    \/ EnvSetRole

SpecRoles == InitAccounts /\ [][NextRoles]_vars

InitCredentials ==
    /\ patients = {}
    /\ studies = {}
    /\ images = {}
    /\ files = {}
    /\ uploads = [r \in Uploads |-> IdleUpload]
    /\ deletes = [d \in Deletes |-> IdleDelete]
    /\ uuidCount = 0
    /\ rowCount = [patients |-> 0, studies |-> 0, images |-> 0]
    /\ accessLog = {}
    /\ users \in CredentialTables
    /\ now = 0
    /\ issued = {}
    /\ lastCall = NoCall
    /\ bodies401 = {}
    /\ requests = [r \in Requests |-> IdleRequest]
    /\ secretKey = "secret"
    /\ started = TRUE
    /\ saltCount = MaxUsers
    /\ hashLog = {}

NextCredentials ==
    \/ hash_call
    \/ verify_call
    \/ login

SpecCredentials == InitCredentials /\ [][NextCredentials]_vars

(***************************************************************************)

\* C1: every request that reached the Record Repository or the Blob Store
\* did so after Access Gate authenticate succeeded for its bearer token; a
\* request with no token or an invalid token never gets that far.
C1_AuthenticateBeforeRepository ==
    \A e \in accessLog : e.gate = "ok" /\ e.bearer = "valid"

\* the token's expiry instant lies strictly after instant t
Unexpired(token, t) == t < token.exp * TicksPerSecond

\* C2: for an identity whose active flag is false and a correctly signed,
\* unexpired token naming it, get_current_user fails with 403, never with
\* 401, and does not return the identity.
C2_DeactivatedIsForbidden ==
    lastCall.fn = "get_current_user" =>
       LET token == lastCall.token
       IN  (/\ token.kind = "jwt" /\ token.sig = "good"
            /\ Unexpired(token, lastCall.at)
            /\ \E u \in users : u.id = token.sub /\ ~u.is_active) =>
              /\ lastCall.response.status = 403
              /\ lastCall.response.user = 0

\* a deactivated identity presented its issued, unexpired token
C2_Witness ==
    /\ lastCall.fn = "get_current_user"
    /\ lastCall.token \in {i.token : i \in issued}
    /\ Unexpired(lastCall.token, lastCall.at)
    /\ \E u \in users : u.id = lastCall.token.sub /\ ~u.is_active
    /\ lastCall.response.status = 403

\* C3: every authentication failure of get_current_user yields the same
\* 401 response, body included, whatever its cause.
C3_UniformUnauthenticated == Cardinality(bodies401) <= 1

\* C4: a token issued at t0 with lifetime ttl is accepted by
\* decode_access_token at every instant before t0 + ttl and refused at every
\* instant at or after t0 + ttl.
C4_ExpiryAtIssuePlusTtl ==
    lastCall.fn = "decode_access_token" =>
       \A i \in issued :
          i.token = lastCall.token =>
             (lastCall.response.status = 200
                <=> lastCall.at < i.t0 + i.ttl)

Satisfies(check, u) ==
    CASE check = "extension" -> validate_file_extension(u.filename)
      [] check = "size" -> validate_file_size(u.data.size)
      [] check = "content" -> validate_mime_type(Prefix(u.data))
      [] check = "name" -> TRUE

Validated(u) == u.pc \in {"write", "insert"} \/ (u.pc = "done" /\ u.status # 404)

\* C5: within one upload request the checks run in the order extension,
\* size, content sniffing, name generation; the first check the input fails
\* ends the request with a client fault; nothing is written under the upload
\* root and no image row is created unless all four steps have passed.
C5_ChecksInOrderBeforeStorage ==
    /\ \A r \in Uploads :
         LET u == uploads[r]
             n == Len(u.passed)
         IN  /\ n <= Len(CheckOrder) /\ u.passed = SubSeq(CheckOrder, 1, n)
             /\ Validated(u) =>
                  /\ \A k \in 1..n : Satisfies(CheckOrder[k], u)
                  /\ n < Len(CheckOrder) =>
                       /\ ~Satisfies(CheckOrder[n + 1], u)
                       /\ u.pc = "done" /\ u.status = 400
             /\ u.passed # CheckOrder =>
                  u.wrote = "no" /\ u.stored = <<>> /\ u.path = <<>>
    /\ \A f \in files :
         \E r \in Uploads :
            uploads[r].path = f.path /\ uploads[r].passed = CheckOrder
    /\ \A i \in images :
         \E r \in Uploads :
            uploads[r].stored = i.stored_filename
            /\ uploads[r].passed = CheckOrder

\* a request turned down by the content sniff after the extension and the
\* size had passed
C5_Witness ==
    \E r \in Uploads :
       /\ uploads[r].pc = "done" /\ uploads[r].status = 400
       /\ uploads[r].passed = <<"extension", "size">>
       /\ files = {} /\ images = {}

\* C6: an image row is inserted only after the blob write of the same upload
\* request completed; a failed write ends the request with a server fault
\* and no image row for that file exists in any later state.
C6_RowOnlyAfterCompletedWrite ==
    /\ \A i \in images :
         \E r \in Uploads :
            uploads[r].stored = i.stored_filename /\ uploads[r].wrote = "ok"
    /\ \A r \in Uploads :
         uploads[r].wrote = "failed" =>
            /\ uploads[r].pc = "done" /\ uploads[r].status = 500
            /\ \A i \in images : i.stored_filename # uploads[r].stored

\* a write that failed part-way, leaving bytes on disk
C6_Witness ==
    \E r \in Uploads :
       /\ uploads[r].wrote = "failed"
       /\ FileAt(uploads[r].path) # {}

\* C7: once a study is gone (delete_study, or delete_patient of its
\* patient), every image uploaded to it has lost its row and its file.
C7_NoRowNoFileOfDeletedStudy ==
    \A r \in Uploads :
       LET u == uploads[r]
       IN  (u.pc = "done" /\ u.status = 201 /\ get_study(u.study_id) = {}) =>
              /\ \A i \in images : i.stored_filename # u.stored
              /\ FileAt(u.path) = {}

\* C8: crud.delete_image of an existing image removes the row and the
\* request reports success whether the blob was absent, removed or could
\* not be removed; the row is gone before the blob is tried and stays gone.
C8_DeleteImageRowFirstAlwaysSucceeds ==
    \A d \in Deletes :
       LET q == deletes[d]
       IN  /\ q.pc = "blob" => get_image(q.image_id) = {} /\ q.status = 0
           /\ q.blob # None =>
                /\ q.pc = "done" /\ q.status = 204
                /\ get_image(q.image_id) = {}

\* a deletion whose blob removal failed
C8_Witness ==
    \E d \in Deletes :
       /\ deletes[d].pc = "done" /\ deletes[d].blob = "unlink_error"
       /\ FileAt(deletes[d].path) # {}

\* C9: two uploads with the same original filename that both pass
\* validation get different stored names and different paths, neither file
\* replaces the other, and when both end with 201 there are two rows.
C9_SameNameDistinctStorage ==
    \A r1, r2 \in Uploads :
       LET u1 == uploads[r1]
           u2 == uploads[r2]
       IN  (r1 # r2 /\ u1.filename = u2.filename
            /\ u1.passed = CheckOrder /\ u2.passed = CheckOrder) =>
              /\ u1.stored # u2.stored
              /\ u1.path # u2.path
              /\ u1.wrote = "ok" => [path |-> u1.path, data |-> u1.data] \in files
              /\ (u1.status = 201 /\ u2.status = 201) =>
                   \E i1, i2 \in images :
                      /\ i1.id # i2.id
                      /\ i1.stored_filename = u1.stored
                      /\ i2.stored_filename = u2.stored
                      /\ i1.file_path = u1.path /\ i2.file_path = u2.path

\* two finished uploads of the same file name
C9_Witness ==
    \E r1, r2 \in Uploads :
       /\ r1 # r2
       /\ uploads[r1].filename = uploads[r2].filename
       /\ uploads[r1].status = 201 /\ uploads[r2].status = 201
       /\ Cardinality(images) = 2 /\ Cardinality(files) = 2

HasToken(s, tok) == \E k \in 1..Len(s) : s[k] = tok

IsGeneratedName(name) ==
    /\ Len(name) = 3
    /\ \E k \in 1..Len(UuidNames) : name[1] = UuidNames[k]
    /\ SubSeq(name, 2, 3) \in ALLOWED_EXTENSIONS
    /\ ~HasToken(name, "/")

\* C10: every stored name is a generated identifier plus an extension of the
\* allow-list, holds no path separator and no relative component, and every
\* row's file_path is a direct child of the upload root, whatever the
\* client's file name.
C10_StoredNameInsideRoot ==
    /\ \A r \in Uploads :
         uploads[r].stored # <<>> =>
            /\ IsGeneratedName(uploads[r].stored)
            /\ uploads[r].path = UPLOAD_DIR \o <<"/">> \o uploads[r].stored
    /\ \A i \in images :
         /\ IsGeneratedName(i.stored_filename)
         /\ i.file_path = UPLOAD_DIR \o <<"/">> \o i.stored_filename
    /\ \A f \in files :
         \E name \in {uploads[r].stored : r \in Uploads} :
            IsGeneratedName(name) /\ f.path = UPLOAD_DIR \o <<"/">> \o name

\* a row for an upload whose file name climbs out of its directory
C10_Witness ==
    \E i \in images :
       /\ HasToken(i.filename, "/")
       /\ SubSeq(i.filename, 1, 2) = <<".", ".">>
       /\ i.file_path \in {f.path : f \in files}

\* C11: an upload whose file name's extension, lower-cased, is outside the
\* allow-list ends with the 400 of the extension check before the upload is
\* read, and leaves no file and no row; a file name whose lower-cased
\* extension is on the list passes the extension check.
C11_ExtensionCheckedBeforeRead ==
    \A r \in Uploads :
       LET u == uploads[r]
       IN  Validated(u) =>
              IF LowerSeq(PathSuffix(u.filename)) \in
                    {<<".", "jpg">>, <<".", "jpeg">>, <<".", "png">>,
                     <<".", "gif">>, <<".", "dcm">>}
              THEN u.passed # <<>> /\ u.passed[1] = "extension"
              ELSE /\ u.pc = "done" /\ u.status = 400
                   /\ u.detail = "File extension is not allowed."
                   /\ ~u.read
                   /\ u.passed = <<>>
                   /\ files = {} /\ images = {}

\* an upload named png.exe turned down
C11_Witness ==
    /\ uploads[1].pc = "done" /\ uploads[1].status = 400
    /\ uploads[1].filename = <<"png", ".", "exe">>
    /\ ~uploads[1].read

\* C12: an upload with an allowed extension fails the size check exactly
\* when it is longer than 10 * 1024 * 1024 bytes; the size check is decided
\* before the content is sniffed.
C12_SizeCeilingInclusive ==
    \A r \in Uploads :
       LET u == uploads[r]
       IN  (Validated(u) /\ u.passed # <<>>) =>
              IF u.data.size > 10 * 1024 * 1024
              THEN /\ u.pc = "done" /\ u.status = 400
                   /\ u.detail = "File size exceeds the maximum allowed size."
                   /\ u.passed = <<"extension">>
              ELSE Len(u.passed) >= 2 /\ u.passed[2] = "size"

\* a file of exactly 10485760 bytes was stored
C12_Witness ==
    \E r \in Uploads :
       /\ uploads[r].status = 201
       /\ uploads[r].data.size = 10485760
       /\ \E i \in images : i.file_size = 10485760

\* C13: an upload with an allowed extension and a size within the ceiling
\* whose first 2048 bytes do not sniff as an allowed type ends with the 400
\* of the content check, whatever its extension, and leaves no file under
\* the upload root and no image row.
C13_SniffedTypeDecides ==
    \A r \in Uploads :
       LET u == uploads[r]
           sniffed == MagicFromBuffer(u.data.head,
                         IF u.data.size < 2048 THEN u.data.size ELSE 2048)
       IN  (Validated(u) /\ Len(u.passed) >= 2
            /\ sniffed \notin {"image/jpeg", "image/png", "image/gif",
                                "application/dicom"}) =>
              /\ u.pc = "done" /\ u.status = 400
              /\ u.detail = "File type is not allowed."
              /\ u.passed = <<"extension", "size">>
              /\ u.wrote = "no"
              /\ files = {} /\ images = {}

\* five bytes of text uploaded under a .png name
C13_Witness ==
    \E r \in Uploads :
       /\ uploads[r].pc = "done" /\ uploads[r].status = 400
       /\ uploads[r].data = [head |-> "TXT", size |-> 5]
       /\ LowerSeq(PathSuffix(uploads[r].filename)) = <<".", "png">>
       /\ uploads[r].detail = "File type is not allowed."

\* C14: a request that runs into a unique-key conflict (register with an
\* email in use, create_patient with an MRN in use, update_patient to the
\* MRN of another patient) ends with a client fault, never a server fault,
\* also when the conflict only shows at commit.
C14_ConflictIsClientFault ==
    \A r \in Requests :
       requests[r].conflict =>
          requests[r].status >= 400 /\ requests[r].status < 500

\* C15: no two rows of users hold the same email and no two rows of
\* patients hold the same MRN, whatever the interleaving of register,
\* create_patient and update_patient.
C15_UniqueEmailAndMrn ==
    /\ \A u1, u2 \in users : u1.email = u2.email => u1 = u2
    /\ \A p1, p2 \in patients : p1.mrn = p2.mrn => p1 = p2

\* two create_patient requests for one MRN both passed the lookup; the
\* second commit was refused
C15_Witness ==
    \E r1, r2 \in Requests :
       /\ requests[r1].op = "create_patient"
       /\ requests[r2].op = "create_patient"
       /\ requests[r1].key = requests[r2].key
       /\ requests[r1].status = 201 /\ requests[r2].status = 500
       /\ requests[r2].conflict
       /\ Cardinality(patients) = 1

\* C17: a request that names a patient or study id absent from the
\* repository ends with 404, never with another client fault or 403.
C17_AbsentIdIsNotFound ==
    \A r \in Requests :
       requests[r].missing => requests[r].status = 404

\* C16: the role check returns the authenticated identity when its role is
\* in the allowed set and fails with 403 otherwise; it is not reached when
\* authentication fails; list_users returns the user list only to an
\* identity whose role is ADMIN.
C16_RoleCheckAfterAuthentication ==
    lastCall.fn \in {"require_role", "list_users"} =>
       LET c == lastCall
       IN  /\ c.auth.status # 200 =>
                ~c.checked /\ c.response = c.auth /\ c.body = {}
           /\ c.auth.status = 200 =>
                \E u \in users :
                   /\ u.id = c.token.sub
                   /\ u.role \in c.allowed =>
                        c.response.status = 200 /\ c.response.user = u.id
                   /\ u.role \notin c.allowed =>
                        c.response.status = 403 /\ c.response.user = 0
           /\ c.fn = "list_users" =>
                /\ c.body \in {{}, users}
                /\ c.response.status = 200 =>
                     /\ c.body = users
                     /\ \E u \in users :
                           u.id = c.token.sub /\ u.role = "ADMIN"

\* an authenticated DOCTOR asked for the user list and was refused
C16_Witness ==
    /\ lastCall.fn = "list_users"
    /\ lastCall.auth.status = 200
    /\ \E u \in users : u.id = lastCall.token.sub /\ u.role = "DOCTOR"
    /\ lastCall.response.status = 403
    /\ lastCall.body = {}

\* C18: for every plaintext p, hash_password(p) returns a hash that
\* verify_password accepts for p, and two calls of hash_password return
\* different hashes.
C18_HashThenVerify ==
    \A h \in hashLog :
       /\ h.result.outcome = "returned"
       /\ verify_password(h.password, h.result.value) = Returned(TRUE)
       /\ \A g \in hashLog :
             g.call # h.call => g.result.value # h.result.value

\* C19: verify_password returns false and raises nothing for a stored hash
\* that is not a well-formed bcrypt hash, and a login against an identity
\* with such a hash ends with 401.
C19_MalformedHashIsFalse ==
    /\ (lastCall.fn = "verify_password" /\ ~WellFormedHash(lastCall.hashed))
          => lastCall.response = Returned(FALSE)
    /\ (lastCall.fn = "login"
        /\ \E u \in users :
              u.id = lastCall.user /\ ~WellFormedHash(u.hashed_password))
          => lastCall.status = 401

\* C20: with the signing secret absent from the configuration the process
\* does not start.
C20_NoStartWithoutSecret == secretKey = None => ~started

\* C21: a patient created from a valid input and then fetched by the
\* generated id, with no update or delete of that patient, comes back with
\* the input's mrn, first_name, last_name and date_of_birth, the generated
\* id, and created_at and updated_at populated.
C21_CreateThenFetch ==
    \A r1, r3 \in Requests :
       LET c == requests[r1]
           g == requests[r3]
       IN  (/\ r1 < r3
            /\ c.op = "create_patient" /\ c.status = 201
            /\ g.op = "get_patient" /\ g.pc = "done" /\ g.id = c.id
            /\ \A r2 \in Requests :
                  ~(/\ requests[r2].op \in {"update_patient", "delete_patient"}
                    /\ requests[r2].id = c.id)) =>
              /\ g.status = 200
              /\ \E row \in g.key.body :
                    /\ g.key.body = {row}
                    /\ row.id = c.id
                    /\ row.mrn = c.key.mrn
                    /\ row.first_name = c.key.first_name
                    /\ row.last_name = c.key.last_name
                    /\ row.date_of_birth = c.key.date_of_birth
                    /\ row.created_at.set /\ row.updated_at.set

\* C22: under every interleaving of upload_image with delete_study and
\* delete_patient, every image row's study exists and every study row's
\* patient exists; an upload whose study is deleted between its study
\* lookup and its insert leaves no image row.
C22_NoDanglingOwner ==
    /\ \A i \in images : get_study(i.study_id) # {}
    /\ \A st \in studies : get_patient(st.patient_id) # {}
    /\ \A r \in Uploads :
         (uploads[r].pc = "done" /\ uploads[r].status = 500) =>
            \A i \in images : i.stored_filename # uploads[r].stored

\* an upload that had written its file found its study gone at the insert
C22_Witness ==
    \E r \in Uploads :
       /\ uploads[r].pc = "done" /\ uploads[r].status = 500
       /\ uploads[r].wrote = "ok"
       /\ FileAt(uploads[r].path) # {}
       /\ get_study(uploads[r].study_id) = {}
       /\ images = {}

\* C23: the role check of a request decides by the role the repository
\* holds for the token's identity when the request is made, whatever role
\* the token names: a token issued before a change of role gives the access
\* of the new role.
C23_RoleFromRepository ==
    [][(lastCall' # lastCall
        /\ lastCall'.fn \in {"require_role", "list_users"}
        /\ lastCall'.auth.status = 200) =>
          \E u \in users :
             /\ u.id = lastCall'.token.sub
             /\ lastCall'.response.status =
                   IF u.role \in lastCall'.allowed THEN 200 ELSE 403
             /\ lastCall'.fn = "list_users" =>
                   lastCall'.body = IF u.role = "ADMIN" THEN users ELSE {}]_vars

\* a token issued by login to an ADMIN was refused the user list once the
\* row held another role
C23_Witness ==
    /\ lastCall.fn = "list_users"
    /\ lastCall.token \in {i.token : i \in issued}
    /\ lastCall.token.role = "ADMIN"
    /\ \E u \in users : u.id = lastCall.token.sub /\ u.role # "ADMIN"
    /\ lastCall.auth.status = 200
    /\ lastCall.response.status = 403

\* the plaintext the row's hashed_password was made from
IsPasswordOf(plain, u) == u.hashed_password.digest = <<plain, u.hashed_password.salt>>

\* C24: a login that does not return a token issues none and leaves every
\* row of users as it was, last_login included; last_login changes only in
\* a login that returns a token for that row; an unknown email or a wrong
\* password is answered 401 whether or not the account is active, and 403
\* is answered only for the right password of a deactivated account.
C24_FailedLoginFrame ==
    [][/\ (lastCall' # lastCall /\ lastCall'.fn = "login") =>
            LET found == {u \in users : u.email = lastCall'.email}
            IN  /\ lastCall'.status # 200 =>
                      issued' = issued /\ users' = users
                /\ found = {} => lastCall'.status = 401
                /\ \A u \in found :
                      ~IsPasswordOf(lastCall'.plain, u) =>
                          lastCall'.status = 401
                /\ lastCall'.status = 403 =>
                      \E u \in found :
                         IsPasswordOf(lastCall'.plain, u) /\ ~u.is_active
       /\ \A u \in users, v \in users' :
            (u.id = v.id /\ u.last_login # v.last_login) =>
               /\ lastCall'.fn = "login" /\ lastCall'.status = 200
               /\ lastCall'.user = v.id
               /\ \E i \in issued' : i.token.sub = v.id]_vars

=============================================================================
